---- MODULE Spec2Model ----
(***************************************************************************)
(* A model of the Enigma I simulation in main_v1.py: the rotor arithmetic, *)
(* the stepping rule, the signal path, construction from arguments of any  *)
(* kind, the settings codec, machine instances side by side, and the       *)
(* handlers and entries of the GUI.                                        *)
(*                                                                         *)
(* Python strings are modelled as sequences of one-character strings, so   *)
(* that splitting, joining, stripping and formatting are computed and not  *)
(* assumed.  Python's 0-based list index i is the sequence index i + 1.    *)
(***************************************************************************)
EXTENDS Integers, Sequences, FiniteSets, TLC

VARIABLES
    cfg,        \* the constructor arguments the session was started from
    machine,    \* the EnigmaMachine instance in use (rotors, reflector, plugboard)
    plain,      \* the text handed to the first encrypt call
    text,       \* encrypt: text.upper(), the characters being iterated
    idx,        \* encrypt: how many characters of text the loop has consumed
    result,     \* encrypt: the result list built so far
    phase,      \* which call of the session is running
    first,      \* what the first encrypt call of the session returned and left behind
    keys,       \* process_character calls made on an alphabetic character
    lastIn,     \* the last character handed to process_character
    lastOut,    \* what that call returned
    pasted, \* the string last handed to from_serialized or import_action
    rebuilt,    \* what from_serialized returned (a machine, or the error raised)
    ui,         \* the GUI's variables and text boxes
    dialog,     \* the text shown by the last Export dialog
    clicks,     \* how many GUI handlers have run
    before,     \* the rotor positions before the last keystroke
    rotor,      \* a Rotor on its own
    signal,     \* the index last sent through that rotor, and what came out
    heap,       \* the Rotor objects constructed so far, by identity
    instances,  \* the EnigmaMachine instances running side by side
    catalog,    \* the module-level tables ROTOR_SPECS and REFLECTORS
    enciphered  \* the settings of the machine the last encrypt_action built

vars == <<cfg, machine, plain, text, idx, result, phase, first, keys,
          lastIn, lastOut, pasted, rebuilt, ui, dialog, clicks, before,
          rotor, signal, heap, instances, catalog, enciphered>>

\* The variables of a rotor on its own, and of instances side by side.
probeVars == <<rotor, signal>>

pairVars == <<heap, instances>>

----------------------------------------------------------------------------
(* Characters.                                                             *)

ALPHABET == <<"A", "B", "C", "D", "E", "F", "G", "H", "I", "J", "K", "L", "M", "N", "O", "P", "Q", "R", "S", "T", "U", "V", "W", "X", "Y", "Z">>

Lowercase == <<"a", "b", "c", "d", "e", "f", "g", "h", "i", "j", "k", "l", "m", "n", "o", "p", "q", "r", "s", "t", "u", "v", "w", "x", "y", "z">>

Digits == <<"0", "1", "2", "3", "4", "5", "6", "7", "8", "9">>

\* The printable ASCII characters in code order, from code 32 (space) on
\* (code 96 is spelled out: no text of the model uses it).
Printable == <<" ", "!", "\"", "#", "$", "%", "&", "'", "(", ")", "*", "+", ",", "-", ".", "/", "0", "1", "2", "3", "4", "5", "6", "7", "8", "9", ":", ";", "<", "=", ">", "?", "@", "A", "B", "C", "D", "E", "F", "G", "H", "I", "J", "K", "L", "M", "N", "O", "P", "Q", "R", "S", "T", "U", "V", "W", "X", "Y", "Z", "[", "\\", "]", "^", "_", "backtick", "a", "b", "c", "d", "e", "f", "g", "h", "i", "j", "k", "l", "m", "n", "o", "p", "q", "r", "s", "t", "u", "v", "w", "x", "y", "z", "{", "|", "}", "~">>

Range(s) == {s[i] : i \in DOMAIN s}

IndexIn(s, c) == CHOOSE i \in DOMAIN s : s[i] = c

\* The code of each printable ASCII character; "\n" is code 10.
Codes == [c \in Range(Printable) \cup {"\n"} |->
             IF c = "\n" THEN 10 ELSE 31 + IndexIn(Printable, c)]

ord(c) == Codes[c]

letter_to_index(c) == ord(c) - ord("A")

index_to_letter(i) == ALPHABET[(i % 26) + 1]

\* ch in ALPHABET, for a one-character string ch.
Letters == Range(ALPHABET)

InAlphabet(ch) == ch \in Letters

\* str.upper() on one character, and on a string.
UpperChar(c) == IF c \in Range(Lowercase) THEN ALPHABET[IndexIn(Lowercase, c)] ELSE c

upper(s) == [i \in DOMAIN s |-> UpperChar(s[i])]

----------------------------------------------------------------------------
(* Python string operations, on sequences of characters.                   *)

\* s.find(sub): the 0-based index of the first occurrence, or -1.
find(s, sub) ==
    LET at == {k \in 0..(Len(s) - Len(sub)) : SubSeq(s, k + 1, k + Len(sub)) = sub}
    IN  IF at = {} THEN 0 - 1 ELSE CHOOSE k \in at : \A j \in at : k <= j

\* sub in s.
Contains(s, sub) == find(s, sub) # 0 - 1

startswith(s, prefix) ==
    Len(s) >= Len(prefix) /\ SubSeq(s, 1, Len(prefix)) = prefix

\* s.split(sep), for a non-empty separator.
RECURSIVE split(_, _)
split(s, sep) ==
    LET i == find(s, sep)
    IN  IF i = 0 - 1 THEN <<s>>
        ELSE <<SubSeq(s, 1, i)>> \o split(SubSeq(s, i + Len(sep) + 1, Len(s)), sep)

\* s.split(sep, 1).
split_once(s, sep) ==
    LET i == find(s, sep)
    IN  IF i = 0 - 1 THEN <<s>>
        ELSE <<SubSeq(s, 1, i), SubSeq(s, i + Len(sep) + 1, Len(s))>>

\* sep.join(strs).
RECURSIVE join(_, _)
join(strs, sep) ==
    IF strs = <<>> THEN <<>>
    ELSE IF Len(strs) = 1 THEN strs[1]
    ELSE strs[1] \o sep \o join(Tail(strs), sep)

\* s.replace(old, new), for a one-character old.
RECURSIVE replace(_, _, _)
replace(s, old, new) ==
    IF s = <<>> THEN <<>>
    ELSE (IF Head(s) = old THEN new ELSE <<Head(s)>>) \o replace(Tail(s), old, new)

Whitespace == {" ", "\n", "\t"}

\* s.lstrip(chars), s.rstrip(chars), s.strip(chars) for a set of characters.
RECURSIVE lstrip_chars(_, _)
lstrip_chars(s, chars) ==
    IF s # <<>> /\ Head(s) \in chars THEN lstrip_chars(Tail(s), chars) ELSE s

RECURSIVE rstrip_chars(_, _)
rstrip_chars(s, chars) ==
    IF s # <<>> /\ s[Len(s)] \in chars
    THEN rstrip_chars(SubSeq(s, 1, Len(s) - 1), chars) ELSE s

strip_chars(s, chars) == rstrip_chars(lstrip_chars(s, chars), chars)

\* s.strip().
strip(s) == strip_chars(s, Whitespace)

\* s.split() with no separator: the runs of non-whitespace characters.
RECURSIVE split_whitespace(_)
split_whitespace(s) ==
    LET t == lstrip_chars(s, Whitespace)
        ends == {k \in 1..Len(t) : t[k] \in Whitespace}
        stop == IF ends = {} THEN Len(t) + 1
                ELSE CHOOSE k \in ends : \A j \in ends : k <= j
    IN  IF t = <<>> THEN <<>>
        ELSE <<SubSeq(t, 1, stop - 1)>> \o split_whitespace(SubSeq(t, stop, Len(t)))

\* The decimal digits of n >= 0, and f"{n:02d}".
RECURSIVE Decimal(_)
Decimal(n) ==
    IF n < 10 THEN <<Digits[n + 1]>>
    ELSE Decimal(n \div 10) \o <<Digits[(n % 10) + 1]>>

format_02d(n) == IF n < 10 THEN <<"0">> \o Decimal(n) ELSE Decimal(n)

\* int(x): surrounding whitespace and one sign are accepted, then decimal
\* digits only (the underscores int() also allows appear in no input here).
IntBody(x) ==
    LET t == strip(x)
    IN  IF t # <<>> /\ t[1] \in {"+", "-"} THEN Tail(t) ELSE t

int_raises(x) ==
    IntBody(x) = <<>> \/ \E k \in DOMAIN IntBody(x) : IntBody(x)[k] \notin Range(Digits)

RECURSIVE DigitsValue(_)
DigitsValue(d) ==
    IF d = <<>> THEN 0
    ELSE 10 * DigitsValue(SubSeq(d, 1, Len(d) - 1)) + (IndexIn(Digits, d[Len(d)]) - 1)

int(x) ==
    IF strip(x)[1] = "-" THEN 0 - DigitsValue(IntBody(x)) ELSE DigitsValue(IntBody(x))

----------------------------------------------------------------------------
(* The catalogs.                                                           *)

WiringI == <<"E", "K", "M", "F", "L", "G", "D", "Q", "V", "Z", "N", "T", "O", "W", "Y", "H", "X", "U", "S", "P", "A", "I", "B", "R", "C", "J">>

WiringII == <<"A", "J", "D", "K", "S", "I", "R", "U", "X", "B", "L", "H", "W", "T", "M", "C", "Q", "G", "Z", "N", "P", "Y", "F", "V", "O", "E">>

WiringIII == <<"B", "D", "F", "H", "J", "L", "C", "P", "R", "T", "X", "V", "Z", "N", "Y", "E", "I", "W", "G", "A", "K", "M", "U", "S", "Q", "O">>

WiringIV == <<"E", "S", "O", "V", "P", "Z", "J", "A", "Y", "Q", "U", "I", "R", "H", "X", "L", "N", "F", "T", "G", "K", "D", "C", "M", "W", "B">>

WiringV == <<"V", "Z", "B", "R", "G", "I", "T", "Y", "U", "P", "S", "D", "N", "H", "L", "X", "A", "W", "M", "J", "Q", "O", "F", "E", "C", "K">>

WiringB == <<"Y", "R", "U", "H", "Q", "S", "L", "D", "P", "X", "N", "G", "O", "K", "M", "I", "E", "B", "F", "Z", "C", "W", "V", "J", "A", "T">>

\* Rotor and reflector names are strings too.
NameI == <<"I">>
NameII == <<"I", "I">>
NameIII == <<"I", "I", "I">>
NameIV == <<"I", "V">>
NameV == <<"V">>
NameB == <<"B">>

\* ROTOR_SPECS: name -> (wiring, notch letters).
ROTOR_SPECS ==
    (NameI :> <<WiringI, <<"Q">>>>) @@ (NameII :> <<WiringII, <<"E">>>>)
    @@ (NameIII :> <<WiringIII, <<"V">>>>) @@ (NameIV :> <<WiringIV, <<"J">>>>)
    @@ (NameV :> <<WiringV, <<"Z">>>>)

REFLECTORS == (NameB :> WiringB)

----------------------------------------------------------------------------
(* Rotor.                                                                  *)

\* The loop "for i, w in enumerate(wiring): inverse_wiring[w] = i" over a
\* list that starts as [0]*26: the last i written to each slot, else 0.
InverseOf(wiring) ==
    [j \in 1..26 |->
        LET hits == {i \in 1..26 : wiring[i] = j - 1}
        IN  IF hits = {} THEN 0
            ELSE (CHOOSE i \in hits : \A k \in hits : k <= i) - 1]

Rotor(name, wiring_str, notch_letters, ring_setting, position) ==
    LET wiring == [i \in 1..26 |-> letter_to_index(wiring_str[i])]
    IN  [name |-> name,
         wiring |-> wiring,
         inverse_wiring |-> InverseOf(wiring),
         notches |-> {letter_to_index(notch_letters[i]) : i \in DOMAIN notch_letters},
         ring |-> (ring_setting - 1) % 26,
         position |-> letter_to_index(position)]

step(r) == [r EXCEPT !.position = (r.position + 1) % 26]

at_notch(r) == r.position \in r.notches

\* An entry pass that takes the ring into account on the way in only.
forward_ring_once(r, c) ==
    LET shifted == (c + r.position - r.ring) % 26
        wired == r.wiring[shifted + 1]
    IN  (wired - r.position) % 26

forward(r, c) ==
    LET shifted == (c + r.position - r.ring) % 26
        wired == r.wiring[shifted + 1]
    IN  (wired - r.position + r.ring) % 26

\* A return pass that goes through the wiring the way the entry pass does.
backward_through_wiring(r, c) ==
    LET shifted == (c + r.position - r.ring) % 26
        wired == r.wiring[shifted + 1]
    IN  (wired - r.position + r.ring) % 26

backward(r, c) ==
    LET shifted == (c + r.position - r.ring) % 26
        wired == r.inverse_wiring[shifted + 1]
    IN  (wired - r.position + r.ring) % 26

----------------------------------------------------------------------------
(* Reflector and plugboard.                                                *)

Reflector(wiring_str) == [i \in 1..26 |-> letter_to_index(wiring_str[i])]

reflect(wiring, c) == wiring[c + 1]

\* A Python list index: i in -n..n-1, the negative ones counted from the end.
ValidIndex(i, n) == i >= 0 - n /\ i < n

PyIndex(i, n) == IF i < 0 THEN i + n + 1 ELSE i + 1

\* Whether Plugboard(pairs) raises IndexError: a pair shorter than two
\* characters, or a letter whose index is no index of the 26-element list.
PlugboardRaises(pairs) ==
    \E k \in DOMAIN pairs :
        \/ Len(pairs[k]) < 2
        \/ ~ValidIndex(letter_to_index(pairs[k][1]), 26)
        \/ ~ValidIndex(letter_to_index(pairs[k][2]), 26)

RECURSIVE PlugAssign(_, _)
PlugAssign(mapping, pairs) ==
    IF pairs = <<>> THEN mapping
    ELSE LET a == letter_to_index(Head(pairs)[1])
             b == letter_to_index(Head(pairs)[2])
             m1 == [mapping EXCEPT ![PyIndex(a, 26)] = b]
             m2 == [m1 EXCEPT ![PyIndex(b, 26)] = a]
         IN  PlugAssign(m2, Tail(pairs))

\* Plugboard.__init__: the identity list, then the pairs assigned in order.
Plugboard(pairs) == PlugAssign([i \in 1..26 |-> i - 1], pairs)

swap(mapping, c) == mapping[PyIndex(c, 26)]

----------------------------------------------------------------------------
(* EnigmaMachine.                                                          *)

Min3(a, b, c) ==
    IF a <= b /\ a <= c THEN a ELSE IF b <= c THEN b ELSE c

Raised(error) == [ok |-> FALSE, error |-> error]

\* EnigmaMachine.__init__.  zip() stops at the shortest of its three lists;
\* an unknown rotor or reflector name raises KeyError, the plugboard may
\* raise IndexError.
EnigmaMachine(rotor_names, rotor_positions, ring_settings, reflector_name, plug_pairs) ==
    LET n == Min3(Len(rotor_names), Len(rotor_positions), Len(ring_settings))
    IN  IF \E k \in 1..n : rotor_names[k] \notin DOMAIN ROTOR_SPECS
        THEN Raised("KeyError")
        ELSE IF reflector_name \notin DOMAIN REFLECTORS
        THEN Raised("KeyError")
        ELSE IF PlugboardRaises(plug_pairs)
        THEN Raised("IndexError")
        ELSE [ok |-> TRUE,
              rotors |-> [k \in 1..n |->
                  Rotor(rotor_names[k], ROTOR_SPECS[rotor_names[k]][1],
                        ROTOR_SPECS[rotor_names[k]][2], ring_settings[k],
                        rotor_positions[k])],
              reflector |-> Reflector(REFLECTORS[reflector_name]),
              plugboard |-> Plugboard(plug_pairs)]

\* The constructor applied to a configuration record.
Build(c) ==
    EnigmaMachine(c.rotor_names, c.rotor_positions, c.ring_settings,
                  c.reflector_name, c.plug_pairs)

\* A stepping rule without the double step, as a plain odometer would have
\* it: the middle rotor moves only when the right one is at its notch, the
\* left one only when the middle one is carried over its notch.
step_rotors_odometer(m) ==
    LET left == m.rotors[1]
        middle == m.rotors[2]
        right == m.rotors[3]
        middle1 == IF at_notch(right) THEN step(middle) ELSE middle
        left1 == IF at_notch(right) /\ at_notch(middle) THEN step(left) ELSE left
    IN  [m EXCEPT !.rotors = <<left1, middle1, step(right)>>]

\* The stepping of the historical machine: the left rotor moves when the
\* middle rotor shows its notch letter before the keystroke.
step_rotors_classic(m) ==
    LET left == m.rotors[1]
        middle == m.rotors[2]
        right == m.rotors[3]
        middle_will_step == at_notch(right) \/ at_notch(middle)
        middle1 == IF middle_will_step THEN step(middle) ELSE middle
        left1 == IF at_notch(middle) THEN step(left) ELSE left
    IN  [m EXCEPT !.rotors = <<left1, middle1, step(right)>>]

\* A stepping rule in which the middle rotor moves only on the right
\* rotor's notch, and the left rotor whenever the middle one then shows its
\* notch letter.
step_rotors_no_second_advance(m) ==
    LET left == m.rotors[1]
        middle == m.rotors[2]
        right == m.rotors[3]
        middle1 == IF at_notch(right) THEN step(middle) ELSE middle
        left1 == IF at_notch(middle1) THEN step(left) ELSE left
    IN  [m EXCEPT !.rotors = <<left1, middle1, step(right)>>]

\* A stepping rule in which the right rotor rests while the middle rotor
\* leaves its notch.
step_rotors_right_waits(m) ==
    LET left == m.rotors[1]
        middle == m.rotors[2]
        right == m.rotors[3]
        middle_will_step == at_notch(right) \/ at_notch(middle)
        middle1 == IF middle_will_step THEN step(middle) ELSE middle
        left1 == IF at_notch(middle1) THEN step(left) ELSE left
        right1 == IF at_notch(middle) THEN right ELSE step(right)
    IN  [m EXCEPT !.rotors = <<left1, middle1, right1>>]

\* step_rotors, on a machine of three rotors (left, middle, right).
step_rotors(m) ==
    LET left == m.rotors[1]
        middle == m.rotors[2]
        right == m.rotors[3]
        middle_will_step == at_notch(right) \/ at_notch(middle)
        middle1 == IF middle_will_step THEN step(middle) ELSE middle
        left1 == IF at_notch(middle1) THEN step(left) ELSE left
    IN  [m EXCEPT !.rotors = <<left1, middle1, step(right)>>]

\* A signal path that leaves out the plugboard on the way out.
SignalPath_no_plug_out(m, ch) ==
    LET c0 == swap(m.plugboard, letter_to_index(ch))
        c1 == forward(m.rotors[3], c0)
        c2 == forward(m.rotors[2], c1)
        c3 == forward(m.rotors[1], c2)
        c4 == reflect(m.reflector, c3)
        c5 == backward(m.rotors[1], c4)
        c6 == backward(m.rotors[2], c5)
        c7 == backward(m.rotors[3], c6)
    IN  index_to_letter(c7)

\* The signal path of process_character, after the rotors have stepped.
SignalPath(m, ch) ==
    LET c0 == swap(m.plugboard, letter_to_index(ch))
        c1 == forward(m.rotors[3], c0)
        c2 == forward(m.rotors[2], c1)
        c3 == forward(m.rotors[1], c2)
        c4 == reflect(m.reflector, c3)
        c5 == backward(m.rotors[1], c4)
        c6 == backward(m.rotors[2], c5)
        c7 == backward(m.rotors[3], c6)
    IN  index_to_letter(swap(m.plugboard, c7))

\* process_character: the machine it leaves and the character it returns.
process_character(m, ch) ==
    IF ~InAlphabet(ch) THEN [machine |-> m, out |-> ch]
    ELSE LET stepped == step_rotors(m)
         IN  [machine |-> stepped, out |-> SignalPath(stepped, ch)]

Positions(m) == [k \in DOMAIN m.rotors |-> m.rotors[k].position]

----------------------------------------------------------------------------
(* Configurations.                                                         *)

Config(names, positions, rings, pairs) ==
    [rotor_names |-> names, rotor_positions |-> positions,
     ring_settings |-> rings, reflector_name |-> NameB, plug_pairs |-> pairs]

NoChar == ""

NoMachine == [ok |-> FALSE, error |-> "none"]

NoFirst == [out |-> <<>>, positions |-> <<>>]

NoUi == [set |-> FALSE]

NoRotor == [name |-> <<>>]

NoSignal == [sent |-> 0 - 1]

\* The module-level tables.
Catalog == [ROTOR_SPECS |-> ROTOR_SPECS, REFLECTORS |-> REFLECTORS]

DefaultConfig == Config(<<NameI, NameII, NameIII>>, <<"A", "A", "A">>, <<1, 1, 1>>, <<>>)

----------------------------------------------------------------------------
(* Keystrokes: one machine, one alphabetic character after another.        *)

\* How many keystrokes a run makes.
MaxKeys == 17600

KeyLetters == {"A", "N"}

\* Start windows are chosen around the notches of the middle and right
\* rotors: ordinary ones, the right rotor at its notch, the middle rotor at
\* its notch, and both one past their notches.
KeyConfigs ==
    {Config(<<NameI, NameII, NameIII>>, <<"A", "A", "A">>, <<1, 1, 1>>, <<>>),
     Config(<<NameI, NameII, NameIII>>, <<"A", "D", "V">>, <<1, 1, 1>>, <<<<"A", "N">>>>),
     Config(<<NameI, NameII, NameIII>>, <<"Z", "E", "B">>, <<2, 26, 13>>, <<>>),
     Config(<<NameI, NameII, NameIII>>, <<"K", "F", "W">>, <<1, 1, 1>>, <<>>),
     Config(<<NameV, NameIV, NameI>>, <<"Q", "J", "Q">>, <<5, 1, 20>>,
            <<<<"A", "T">>, <<"B", "S">>, <<"N", "Z">>>>),
     Config(<<NameIII, NameIII, NameIII>>, <<"V", "W", "W">>, <<1, 1, 1>>, <<>>)}

KeysInit ==
    /\ cfg \in KeyConfigs
    /\ machine = Build(cfg)
    /\ keys = 0
    /\ lastIn = NoChar
    /\ lastOut = NoChar
    /\ plain = <<>>
    /\ text = <<>>
    /\ idx = 0
    /\ result = <<>>
    /\ phase = "keys"
    /\ first = NoFirst
    /\ pasted = <<>>
    /\ rebuilt = NoMachine
    /\ ui = NoUi
    /\ dialog = <<>>
    /\ clicks = 0
    /\ before = <<>>
    /\ rotor = NoRotor
    /\ signal = NoSignal
    /\ heap = <<>>
    /\ instances = <<>>
    /\ catalog = Catalog
    /\ enciphered = <<>>

\* One call of process_character on an alphabetic character.
Keystroke(ch) ==
    /\ phase = "keys"
    /\ keys < MaxKeys
    /\ LET r == process_character(machine, ch)
       IN  /\ machine' = r.machine
           /\ lastOut' = r.out
    /\ lastIn' = ch
    /\ keys' = keys + 1
    /\ before' = Positions(machine)
    /\ UNCHANGED <<cfg, plain, text, idx, result, phase, first, pasted,
                   rebuilt, ui, dialog, clicks>>
    /\ UNCHANGED <<probeVars, pairVars, catalog, enciphered>>

KeysNext == \E ch \in KeyLetters : Keystroke(ch)

SpecKeys == KeysInit /\ [][KeysNext]_vars


----------------------------------------------------------------------------
(* Claims about the stepping rule and the signal path, under SpecKeys.     *)

Advanced(p) == [k \in DOMAIN p |-> (p[k] + 1) % 26]

\* C2, as the specification states it: whenever the middle rotor shows its
\* notch letter and the right rotor does not, one keystroke advances the
\* left, the middle and the right rotor by exactly one position each.
C2_DoubleStepAdvancesAll ==
    [][(/\ keys' = keys + 1
        /\ at_notch(machine.rotors[2])
        /\ ~at_notch(machine.rotors[3]))
       => Positions(machine') = Advanced(Positions(machine))]_vars

\* The window shows the letter after a notch letter.
PastNotch(r) == ((r.position - 1) % 26) \in r.notches

\* The position tuples the stepping rule itself produces again and again:
\* all but those with the middle rotor at its notch while the right rotor is
\* not one past its notch, and those with both one past their notches.
Recurs(m) ==
    /\ ~(at_notch(m.rotors[2]) /\ ~PastNotch(m.rotors[3]))
    /\ ~(PastNotch(m.rotors[2]) /\ PastNotch(m.rotors[3]))

OdometerCycle == 26 * 26 * 26

SteppingCycle == 26 * 25 * 26

\* C3, as the specification states it: after exactly 17,576 alphabetic
\* characters the rotor positions equal the starting tuple.
C3_OdometerPeriod ==
    keys = OdometerCycle => Positions(machine) = Positions(Build(cfg))

\* C3, amended: the rotor positions return to the starting tuple after
\* exactly 16,900 (26*25*26) alphabetic characters, from every starting
\* tuple the stepping rule itself produces; from every starting tuple the
\* positions after 16,902 characters are those after 2 characters.
C3_SteppingPeriod ==
    /\ (keys = SteppingCycle /\ Recurs(Build(cfg)))
       => Positions(machine) = Positions(Build(cfg))
    /\ keys = SteppingCycle + 2
       => Positions(machine) = Positions(step_rotors(step_rotors(Build(cfg))))

C3_Witness ==
    /\ keys = SteppingCycle
    /\ Recurs(Build(cfg))
    /\ Positions(machine) = Positions(Build(cfg))

\* C7: whatever the rotor state, no letter is ever enciphered to itself:
\* the letter the last keystroke returned differs from the letter typed,
\* and in the rotor state that keystroke enciphered under (the state it
\* left) every other letter would have come out changed as well.
C7_NeverSelf ==
    /\ lastIn # NoChar => lastOut # lastIn
    /\ keys > 0 => \A x \in Letters : SignalPath(machine, x) # x

C7_Witness ==
    /\ keys > 26
    /\ cfg.plug_pairs # <<>>
    /\ lastIn = "N"
    /\ lastOut \in Letters \ {"N"}


----------------------------------------------------------------------------
(* A session: encrypt a text on a machine freshly built from a             *)
(* configuration, then run a second encrypt call on another machine        *)
(* freshly built from the same configuration (as test_roundtrip does),     *)
(* either on the first call's output or on the text without its            *)
(* non-alphabetic characters.                                              *)

\* The longest text a session encrypts.
MaxTextLen == 3

TextChars == {"H", "Q", "e", "!"}

RECURSIVE SeqsUpTo(_, _)
SeqsUpTo(S, n) ==
    IF n = 0 THEN {<<>>}
    ELSE LET shorter == SeqsUpTo(S, n - 1)
         IN  shorter \cup {Append(s, c) : s \in {t \in shorter : Len(t) = n - 1}, c \in S}

Texts == SeqsUpTo(TextChars, MaxTextLen)

SessionConfigs ==
    {Config(names, positions, rings, pairs) :
        names \in {<<NameI, NameII, NameIII>>, <<NameIV, NameV, NameII>>},
        positions \in {<<"A", "A", "A">>, <<"A", "D", "U">>, <<"M", "E", "V">>,
                       <<"Z", "Y", "D">>},
        rings \in {<<1, 1, 1>>, <<26, 2, 14>>},
        pairs \in {<<>>, <<<<"H", "Q">>>>, <<<<"A", "B">>, <<"E", "H">>>>}}

\* The characters of s that are letters of either case, in order.
RECURSIVE LettersOf(_)
LettersOf(s) ==
    IF s = <<>> THEN <<>>
    ELSE IF Head(s) \in Letters \cup Range(Lowercase)
         THEN <<Head(s)>> \o LettersOf(Tail(s))
         ELSE LettersOf(Tail(s))

\* A body of encrypt's loop that sends every character through the rotors'
\* stepping, alphabetic or not.
encrypt_char_always_steps(m, ch) ==
    IF InAlphabet(ch) THEN process_character(m, ch)
    ELSE [machine |-> step_rotors(m), out |-> ch]

\* The body of encrypt's loop: the machine it leaves, the character appended.
encrypt_char(m, ch) ==
    IF InAlphabet(ch) THEN process_character(m, ch)
    ELSE [machine |-> m, out |-> ch]

Init ==
    /\ cfg \in SessionConfigs
    /\ plain \in Texts
    /\ machine = Build(cfg)
    /\ text = upper(plain)
    /\ idx = 0
    /\ result = <<>>
    /\ phase = "first"
    /\ first = NoFirst
    /\ keys = 0
    /\ lastIn = NoChar
    /\ lastOut = NoChar
    /\ pasted = <<>>
    /\ rebuilt = NoMachine
    /\ ui = NoUi
    /\ dialog = <<>>
    /\ clicks = 0
    /\ before = <<>>
    /\ rotor = NoRotor
    /\ signal = NoSignal
    /\ heap = <<>>
    /\ instances = <<>>
    /\ catalog = Catalog
    /\ enciphered = <<>>

\* One iteration of encrypt's loop.
EncryptChar ==
    /\ phase \in {"first", "second", "stripped"}
    /\ idx < Len(text)
    /\ LET ch == text[idx + 1]
           r == encrypt_char(machine, ch)
       IN  /\ machine' = r.machine
           /\ result' = Append(result, r.out)
           /\ keys' = IF InAlphabet(ch) THEN keys + 1 ELSE keys
           /\ lastIn' = IF InAlphabet(ch) THEN ch ELSE lastIn
           /\ lastOut' = IF InAlphabet(ch) THEN r.out ELSE lastOut
    /\ idx' = idx + 1
    /\ UNCHANGED <<cfg, plain, text, phase, first, pasted, rebuilt, ui, dialog, clicks>>
    /\ UNCHANGED <<before, probeVars, pairVars, catalog, enciphered>>

\* The first call has returned; text is what the second call is given.
SecondCall(kind, given) ==
    /\ phase = "first"
    /\ idx = Len(text)
    /\ first' = [out |-> result, positions |-> Positions(machine)]
    /\ machine' = Build(cfg)
    /\ text' = upper(given)
    /\ idx' = 0
    /\ result' = <<>>
    /\ phase' = kind
    /\ UNCHANGED <<cfg, plain, keys, lastIn, lastOut, pasted, rebuilt, ui, dialog, clicks>>
    /\ UNCHANGED <<before, probeVars, pairVars, catalog, enciphered>>

\* machine_dec.encrypt(ct), as in test_roundtrip.
Decrypt == SecondCall("second", result)

\* encrypt of the same text without its non-alphabetic characters.
EncryptStripped == SecondCall("stripped", LettersOf(plain))

Next == EncryptChar \/ Decrypt \/ EncryptStripped

Spec == Init /\ [][Next]_vars

Returned == idx = Len(text)

\* C1: a letters-only plaintext, encrypted on a machine freshly built from a
\* configuration and encrypted again on a second machine freshly built from
\* the same configuration, comes back unchanged.
C1_Reciprocity ==
    (phase = "second" /\ Returned /\ Range(plain) \subseteq Letters)
        => result = plain

C1_Witness ==
    /\ phase = "second"
    /\ Returned
    /\ Range(plain) \subseteq Letters
    /\ Len(plain) >= 3
    /\ cfg.plug_pairs # <<>>
    /\ first.out # plain
    /\ result = plain

\* C6: a non-alphabetic character is emitted unchanged at its own index and
\* leaves the machine as it was; after encrypt(text) the rotor positions and
\* the output letters are those of encrypt(text without its non-alphabetic
\* characters) on an identically configured machine.
C6_Passthrough ==
    /\ [](\A j \in 1..idx :
            (phase = "first" /\ plain[j] \notin Letters \cup Range(Lowercase))
                => result[j] = plain[j])
    /\ []((phase = "stripped" /\ Returned)
            => /\ Positions(machine) = first.positions
               /\ result = LettersOf(first.out))
    /\ [][(idx' = idx + 1 /\ ~InAlphabet(text[idx + 1]))
            => machine' = machine]_vars

C6_Witness ==
    /\ phase = "stripped"
    /\ Returned
    /\ Len(plain) >= 3
    /\ Len(LettersOf(plain)) = 2
    /\ plain[2] = "!"
    /\ first.out[2] = "!"
    /\ Positions(machine) = first.positions
    /\ result = LettersOf(first.out)

----------------------------------------------------------------------------
(* The settings codec.                                                     *)

\* The loop over enumerate(mapping) of get_settings_serialized and of
\* import_action: for each i < mapping[i], the two letters with `between`
\* between them.
RECURSIVE PairsFrom(_, _, _)
PairsFrom(mapping, i, between) ==
    IF i > 25 THEN <<>>
    ELSE LET m == mapping[i + 1]
         IN  (IF i < m /\ m # i
              THEN <<<<index_to_letter(i)>> \o between \o <<index_to_letter(m)>>>>
              ELSE <<>>) \o PairsFrom(mapping, i + 1, between)

get_settings_serialized(m) ==
    LET rotor_names == join([k \in DOMAIN m.rotors |-> m.rotors[k].name], <<",">>)
        positions == [k \in DOMAIN m.rotors |-> index_to_letter(m.rotors[k].position)]
        rings == join([k \in DOMAIN m.rotors |-> format_02d(m.rotors[k].ring + 1)], <<",">>)
        reflector == <<"B">>
        plugstr == join(PairsFrom(m.plugboard, 0, <<"-">>), <<"|">>)
    IN  <<"R", ":">> \o rotor_names \o <<";", "P", "O", "S", ":">> \o positions
        \o <<";", "R", "I", "N", "G", ":">> \o rings
        \o <<";", "R", "E", "F", ":">> \o reflector
        \o <<";", "P", "L", "U", "G", ":">> \o plugstr

\* parts.get(key, default), for the dictionary from_serialized fills from
\* the ';'-separated parts that hold a ':' (a later part replaces an
\* earlier one of the same key).
PartsGet(serialized, key, default) ==
    LET fields == split(serialized, <<";">>)
        hits == {k \in DOMAIN fields :
                    /\ Contains(fields[k], <<":">>)
                    /\ split_once(fields[k], <<":">>)[1] = key}
    IN  IF hits = {} THEN default
        ELSE split_once(fields[CHOOSE k \in hits : \A j \in hits : j <= k], <<":">>)[2]

\* The items from_serialized reads a non-empty PLUG value as.
PlugItems(plug_raw) ==
    IF Contains(plug_raw, <<"|">>) THEN split(plug_raw, <<"|">>)
    ELSE LET items == split(plug_raw, <<"-">>)
         IN  IF Len(items) > 2 /\ Len(items) % 2 = 0
             THEN [i \in 1..(Len(items) \div 2) |-> items[2 * i - 1] \o items[2 * i]]
             ELSE items

\* "a,b = it.split('-')" raises ValueError unless there are two pieces.
PlugItemsRaise(items) ==
    \E k \in DOMAIN items :
        Contains(items[k], <<"-">>) /\ Len(split(items[k], <<"-">>)) # 2

RECURSIVE PlugPairsOf(_)
PlugPairsOf(items) ==
    IF items = <<>> THEN <<>>
    ELSE LET it == Head(items)
         IN  (IF Contains(it, <<"-">>)
              THEN <<strip(split(it, <<"-">>)[1]) \o strip(split(it, <<"-">>)[2])>>
              ELSE IF Len(it) = 2 THEN <<strip(it)>> ELSE <<>>)
             \o PlugPairsOf(Tail(items))

\* A parser whose fallback for the rotor names and the windows is the
\* right-hand end of the catalog: rotors III,IV,V at windows Z,Z,Z.
from_serialized_other_defaults(serialized) ==
    LET rotor_names == split(PartsGet(serialized, <<"R">>, <<"I", "I", "I", ",", "I", "V", ",", "V">>), <<",">>)
        positions == PartsGet(serialized, <<"P", "O", "S">>, <<"Z", "Z", "Z">>)
        ring_tokens == split(PartsGet(serialized, <<"R", "I", "N", "G">>,
                                      <<"0", "1", ",", "0", "1", ",", "0", "1">>), <<",">>)
        reflector == PartsGet(serialized, <<"R", "E", "F">>, <<"B">>)
        plug_raw == PartsGet(serialized, <<"P", "L", "U", "G">>, <<>>)
        items == IF plug_raw = <<>> THEN <<>> ELSE PlugItems(plug_raw)
    IN  IF \E k \in DOMAIN ring_tokens : int_raises(ring_tokens[k])
        THEN Raised("ValueError")
        ELSE IF PlugItemsRaise(items)
        THEN Raised("ValueError")
        ELSE EnigmaMachine(rotor_names, positions,
                           [k \in DOMAIN ring_tokens |-> int(ring_tokens[k])],
                           reflector, PlugPairsOf(items))

\* from_serialized: the machine it returns, or the exception it raises.
from_serialized(serialized) ==
    LET rotor_names == split(PartsGet(serialized, <<"R">>, <<"I", ",", "I", "I", ",", "I", "I", "I">>), <<",">>)
        positions == PartsGet(serialized, <<"P", "O", "S">>, <<"A", "A", "A">>)
        ring_tokens == split(PartsGet(serialized, <<"R", "I", "N", "G">>,
                                      <<"0", "1", ",", "0", "1", ",", "0", "1">>), <<",">>)
        reflector == PartsGet(serialized, <<"R", "E", "F">>, <<"B">>)
        plug_raw == PartsGet(serialized, <<"P", "L", "U", "G">>, <<>>)
        items == IF plug_raw = <<>> THEN <<>> ELSE PlugItems(plug_raw)
    IN  IF \E k \in DOMAIN ring_tokens : int_raises(ring_tokens[k])
        THEN Raised("ValueError")
        ELSE IF PlugItemsRaise(items)
        THEN Raised("ValueError")
        ELSE EnigmaMachine(rotor_names, positions,
                           [k \in DOMAIN ring_tokens |-> int(ring_tokens[k])],
                           reflector, PlugPairsOf(items))

----------------------------------------------------------------------------
(* The codec at work: a machine built from a configuration is serialized   *)
(* and parsed back, or a settings string written by hand is parsed.        *)

\* The most plugboard pairs a configuration has.
MaxPairs == 3

PlugPool == <<<<"A", "T">>, <<"B", "S">>, <<"C", "M">>, <<"D", "Z">>, <<"E", "Q">>>>

CodecConfigs ==
    {Config(names, positions, rings, SubSeq(PlugPool, 1, n)) :
        names \in {<<NameI, NameII, NameIII>>, <<NameV, NameIV, NameI>>},
        positions \in {<<"A", "A", "A">>, <<"Q", "E", "V">>},
        rings \in {<<1, 1, 1>>, <<26, 9, 10>>},
        n \in 0..MaxPairs}

\* 'R:I,II;POS:AAA;RING:01,01,01;REF:B;PLUG:': the R field names two rotors.
SettingsShortR ==
    <<"R", ":", "I", ",", "I", "I", ";", "P", "O", "S", ":", "A", "A", "A", ";", "R", "I", "N", "G", ":", "0", "1", ",", "0", "1", ",", "0", "1", ";", "R", "E", "F", ":", "B", ";", "P", "L", "U", "G", ":">>

\* 'R:I,II,III;POS:AB;RING:01,01,01;REF:B;PLUG:': the POS field holds two letters.
SettingsShortPos ==
    <<"R", ":", "I", ",", "I", "I", ",", "I", "I", "I", ";", "P", "O", "S", ":", "A", "B", ";", "R", "I", "N", "G", ":", "0", "1", ",", "0", "1", ",", "0", "1", ";", "R", "E", "F", ":", "B", ";", "P", "L", "U", "G", ":">>

\* 'R:I,II,III;POS:ABC;RING:01,02;REF:B;PLUG:': the RING field holds two numbers.
SettingsShortRing ==
    <<"R", ":", "I", ",", "I", "I", ",", "I", "I", "I", ";", "P", "O", "S", ":", "A", "B", "C", ";", "R", "I", "N", "G", ":", "0", "1", ",", "0", "2", ";", "R", "E", "F", ":", "B", ";", "P", "L", "U", "G", ":">>

\* 'R:I,II,III;POS:ABC;RING:01,xx,03;REF:B;PLUG:': a RING token is no number.
SettingsBadRing ==
    <<"R", ":", "I", ",", "I", "I", ",", "I", "I", "I", ";", "P", "O", "S", ":", "A", "B", "C", ";", "R", "I", "N", "G", ":", "0", "1", ",", "x", "x", ",", "0", "3", ";", "R", "E", "F", ":", "B", ";", "P", "L", "U", "G", ":">>

\* 'R:I,II,VI;POS:ABC;RING:01,01,01;REF:B;PLUG:': a rotor name is not in the catalog.
SettingsBadRotor ==
    <<"R", ":", "I", ",", "I", "I", ",", "V", "I", ";", "P", "O", "S", ":", "A", "B", "C", ";", "R", "I", "N", "G", ":", "0", "1", ",", "0", "1", ",", "0", "1", ";", "R", "E", "F", ":", "B", ";", "P", "L", "U", "G", ":">>

\* 'R:I,II,III;POS:ABC;RING:01,01,01;REF:B;PLUG:ABCD': a flat run of four plugboard letters.
SettingsFlat4 ==
    <<"R", ":", "I", ",", "I", "I", ",", "I", "I", "I", ";", "P", "O", "S", ":", "A", "B", "C", ";", "R", "I", "N", "G", ":", "0", "1", ",", "0", "1", ",", "0", "1", ";", "R", "E", "F", ":", "B", ";", "P", "L", "U", "G", ":", "A", "B", "C", "D">>

\* 'R:I,II,III;POS:ABC;RING:01,01,01;REF:B;PLUG:AB': a flat run of two plugboard letters.
SettingsFlat2 ==
    <<"R", ":", "I", ",", "I", "I", ",", "I", "I", "I", ";", "P", "O", "S", ":", "A", "B", "C", ";", "R", "I", "N", "G", ":", "0", "1", ",", "0", "1", ",", "0", "1", ";", "R", "E", "F", ":", "B", ";", "P", "L", "U", "G", ":", "A", "B">>

\* 'R:II,IV,V;POS:QEV;RING:03,02,01;REF:B;PLUG:ABCDEF': a flat run of six plugboard letters.
SettingsFlat6 ==
    <<"R", ":", "I", "I", ",", "I", "V", ",", "V", ";", "P", "O", "S", ":", "Q", "E", "V", ";", "R", "I", "N", "G", ":", "0", "3", ",", "0", "2", ",", "0", "1", ";", "R", "E", "F", ":", "B", ";", "P", "L", "U", "G", ":", "A", "B", "C", "D", "E", "F">>

\* 'R:I,II,III;POS:ABC;RING:01,01,01;REF:B;PLUG:AB|CD': pairs of letters joined by bars.
SettingsBars ==
    <<"R", ":", "I", ",", "I", "I", ",", "I", "I", "I", ";", "P", "O", "S", ":", "A", "B", "C", ";", "R", "I", "N", "G", ":", "0", "1", ",", "0", "1", ",", "0", "1", ";", "R", "E", "F", ":", "B", ";", "P", "L", "U", "G", ":", "A", "B", "|", "C", "D">>

\* 'R:I,II,III;POS:ABC;RING:01,01,01;REF:B;PLUG:A-B|A-C': the letter A in two pairs.
SettingsConflict ==
    <<"R", ":", "I", ",", "I", "I", ",", "I", "I", "I", ";", "P", "O", "S", ":", "A", "B", "C", ";", "R", "I", "N", "G", ":", "0", "1", ",", "0", "1", ",", "0", "1", ";", "R", "E", "F", ":", "B", ";", "P", "L", "U", "G", ":", "A", "-", "B", "|", "A", "-", "C">>

\* 'POS:QEV': only the POS field.
SettingsPosOnly ==
    <<"P", "O", "S", ":", "Q", "E", "V">>

\* '': no field at all.
SettingsEmpty ==
    <<>>

\* 'R:IV,V,I': only the R field.
SettingsRotorsOnly ==
    <<"R", ":", "I", "V", ",", "V", ",", "I">>

\* 'RING:05,26,13': only the RING field.
SettingsRingsOnly ==
    <<"R", "I", "N", "G", ":", "0", "5", ",", "2", "6", ",", "1", "3">>

\* 'REF:B': only the REF field.
SettingsRefOnly ==
    <<"R", "E", "F", ":", "B">>

\* 'PLUG:A-T|B-S': only the PLUG field.
SettingsPlugOnly ==
    <<"P", "L", "U", "G", ":", "A", "-", "T", "|", "B", "-", "S">>

\* 'R:V,IV,III;RING:02,03,04;REF:B;PLUG:C-M|D-Z': every field but POS.
SettingsNoPos ==
    <<"R", ":", "V", ",", "I", "V", ",", "I", "I", "I", ";", "R", "I", "N", "G", ":", "0", "2", ",", "0", "3", ",", "0", "4", ";", "R", "E", "F", ":", "B", ";", "P", "L", "U", "G", ":", "C", "-", "M", "|", "D", "-", "Z">>

\* 'note;POS:XYZ;pos:ABC': a part without a colon, POS, and a field the parser does not know.
SettingsStray ==
    <<"n", "o", "t", "e", ";", "P", "O", "S", ":", "X", "Y", "Z", ";", "p", "o", "s", ":", "A", "B", "C">>

ReceivedSettings ==
    {SettingsShortR, SettingsShortPos, SettingsShortRing, SettingsBadRing,
     SettingsBadRotor, SettingsFlat4, SettingsFlat2, SettingsFlat6,
     SettingsBars, SettingsConflict, SettingsPosOnly, SettingsEmpty,
     SettingsRotorsOnly, SettingsRingsOnly, SettingsRefOnly, SettingsPlugOnly,
     SettingsNoPos, SettingsStray}

CodecInit ==
    /\ cfg \in CodecConfigs
    /\ machine = Build(cfg)
    /\ phase = "built"
    /\ pasted = <<>>
    /\ rebuilt = NoMachine
    /\ plain = <<>>
    /\ text = <<>>
    /\ idx = 0
    /\ result = <<>>
    /\ first = NoFirst
    /\ keys = 0
    /\ lastIn = NoChar
    /\ lastOut = NoChar
    /\ ui = NoUi
    /\ dialog = <<>>
    /\ clicks = 0
    /\ before = <<>>
    /\ rotor = NoRotor
    /\ signal = NoSignal
    /\ heap = <<>>
    /\ instances = <<>>
    /\ catalog = Catalog
    /\ enciphered = <<>>

\* machine.get_settings_serialized().
Serialize ==
    /\ phase = "built"
    /\ pasted' = get_settings_serialized(machine)
    /\ phase' = "serialized"
    /\ UNCHANGED <<cfg, machine, plain, text, idx, result, first, keys, lastIn,
                   lastOut, rebuilt, ui, dialog, clicks>>
    /\ UNCHANGED <<before, probeVars, pairVars, catalog, enciphered>>

\* A settings string arrives from elsewhere.
Receive(s) ==
    /\ phase = "built"
    /\ pasted' = s
    /\ phase' = "received"
    /\ UNCHANGED <<cfg, machine, plain, text, idx, result, first, keys, lastIn,
                   lastOut, rebuilt, ui, dialog, clicks>>
    /\ UNCHANGED <<before, probeVars, pairVars, catalog, enciphered>>

\* EnigmaMachine.from_serialized(...) on that string.
Deserialize ==
    /\ phase \in {"serialized", "received"}
    /\ rebuilt' = from_serialized(pasted)
    /\ phase' = IF phase = "serialized" THEN "roundtrip" ELSE "parsed"
    /\ UNCHANGED <<cfg, machine, plain, text, idx, result, first, keys, lastIn,
                   lastOut, pasted, ui, dialog, clicks>>
    /\ UNCHANGED <<before, probeVars, pairVars, catalog, enciphered>>

CodecNext == Serialize \/ (\E s \in ReceivedSettings : Receive(s)) \/ Deserialize

SpecCodec == CodecInit /\ [][CodecNext]_vars

----------------------------------------------------------------------------
(* Claims about the codec, under SpecCodec.                                *)

Parsed == phase \in {"parsed", "roundtrip"}

\* C4, as the specification states it: parsing the serialized settings of a
\* machine built from a valid configuration yields a machine with the same
\* rotor names, positions, ring settings, reflector and plugboard mapping
\* (and so the same ciphertext for any plaintext).
C4_SerializationRoundTrip ==
    phase = "roundtrip" => rebuilt = machine

\* The value of a field of a settings string, or Absent.
Absent == <<"absent">>

FieldOf(s, key) == PartsGet(s, key, Absent)

\* The plug_pairs argument from_serialized hands to the constructor.
PairsHanded(s) ==
    IF FieldOf(s, <<"P", "L", "U", "G">>) \in {Absent, <<>>} THEN <<>>
    ELSE PlugPairsOf(PlugItems(FieldOf(s, <<"P", "L", "U", "G">>)))

\* A list of pairs without the pairs that name a letter an earlier kept
\* pair has named.
RECURSIVE DropFrom(_, _)
DropFrom(pairs, used) ==
    IF pairs = <<>> THEN <<>>
    ELSE LET p == Head(pairs)
         IN  IF p[1] \in used \/ p[2] \in used
             THEN DropFrom(Tail(pairs), used)
             ELSE <<p>> \o DropFrom(Tail(pairs), used \cup {p[1], p[2]})

DropConflicts(pairs) == DropFrom(pairs, {})

Involutive(mapping) ==
    \A c \in 0..25 :
        /\ swap(mapping, c) \in 0..25
        /\ swap(mapping, swap(mapping, c)) = c

\* C8, as the specification states it: whatever list of pairs reaches the
\* constructor, a pair naming a letter of an earlier pair is dropped, and
\* the plugboard mapping is an involution of 0..25.
C8_PlugboardInvolution ==
    /\ machine.ok
        => /\ Involutive(machine.plugboard)
           /\ machine.plugboard = Plugboard(DropConflicts(cfg.plug_pairs))
    /\ (Parsed /\ rebuilt.ok)
        => /\ Involutive(rebuilt.plugboard)
           /\ rebuilt.plugboard = Plugboard(DropConflicts(PairsHanded(pasted)))

\* A field that is present with fewer than three entries, or a RING token
\* that is no number.
Malformed(s) ==
    \/ /\ FieldOf(s, <<"R">>) # Absent
       /\ Len(split(FieldOf(s, <<"R">>), <<",">>)) < 3
    \/ /\ FieldOf(s, <<"P", "O", "S">>) # Absent
       /\ Len(FieldOf(s, <<"P", "O", "S">>)) < 3
    \/ /\ FieldOf(s, <<"R", "I", "N", "G">>) # Absent
       /\ LET tokens == split(FieldOf(s, <<"R", "I", "N", "G">>), <<",">>)
          IN  Len(tokens) < 3 \/ \E k \in DOMAIN tokens : int_raises(tokens[k])

\* C9, as the specification states it: from_serialized fails on a settings
\* string whose R, POS or RING field is short or unparsable, and every
\* machine it returns owns exactly three rotors.
C9_MalformedRejected ==
    Parsed
        => /\ Malformed(pasted) => ~rebuilt.ok
           /\ rebuilt.ok => Len(rebuilt.rotors) = 3

\* A PLUG value that is a flat run of an even number of letters, and its
\* consecutive letter pairs.
FlatRun(v) == v # <<>> /\ v # Absent /\ Len(v) % 2 = 0 /\ Range(v) \subseteq Letters

ConsecutivePairs(v) == [i \in 1..(Len(v) \div 2) |-> <<v[2 * i - 1], v[2 * i]>>]

\* C10, as the specification states it: a PLUG value that is a flat run of
\* 2n letters builds the plugboard of its n consecutive letter pairs.
C10_FlatPlugboard ==
    (Parsed /\ FlatRun(FieldOf(pasted, <<"P", "L", "U", "G">>)))
        => /\ rebuilt.ok
           /\ rebuilt.plugboard
                = Plugboard(ConsecutivePairs(FieldOf(pasted, <<"P", "L", "U", "G">>)))

\* The constructor arguments a settings string stands for: for an absent
\* field the documented default, for a present one what the field holds.
NamesOf(s) ==
    IF FieldOf(s, <<"R">>) = Absent THEN <<NameI, NameII, NameIII>>
    ELSE split(FieldOf(s, <<"R">>), <<",">>)

PositionsOf(s) ==
    IF FieldOf(s, <<"P", "O", "S">>) = Absent THEN <<"A", "A", "A">>
    ELSE FieldOf(s, <<"P", "O", "S">>)

RingTokensOf(s) ==
    IF FieldOf(s, <<"R", "I", "N", "G">>) = Absent THEN <<>>
    ELSE split(FieldOf(s, <<"R", "I", "N", "G">>), <<",">>)

RingsOf(s) ==
    IF FieldOf(s, <<"R", "I", "N", "G">>) = Absent THEN <<1, 1, 1>>
    ELSE [k \in DOMAIN RingTokensOf(s) |-> int(RingTokensOf(s)[k])]

ReflectorOf(s) ==
    IF FieldOf(s, <<"R", "E", "F">>) = Absent THEN NameB
    ELSE FieldOf(s, <<"R", "E", "F">>)

ItemsOf(s) ==
    IF FieldOf(s, <<"P", "L", "U", "G">>) \in {Absent, <<>>} THEN <<>>
    ELSE PlugItems(FieldOf(s, <<"P", "L", "U", "G">>))

SomeFieldAbsent(s) ==
    \E key \in {<<"R">>, <<"P", "O", "S">>, <<"R", "I", "N", "G">>,
                <<"R", "E", "F">>, <<"P", "L", "U", "G">>} : FieldOf(s, key) = Absent

----------------------------------------------------------------------------
(* The GUI: its variables, and the Encrypt/Decrypt, Clear, Export and      *)
(* Import handlers.                                                        *)

\* encrypt(text): the machine it leaves and the string it returns.
RECURSIVE EncryptLoop(_, _, _)
EncryptLoop(m, chars, done) ==
    IF chars = <<>> THEN [machine |-> m, out |-> done]
    ELSE LET r == encrypt_char(m, Head(chars))
         IN  EncryptLoop(r.machine, Tail(chars), Append(done, r.out))

encrypt(m, txt) == EncryptLoop(m, upper(txt), <<>>)

\* The loop of parse_plug_pairs that skips a pair naming a used letter.
RECURSIVE CleanPairs(_, _)
CleanPairs(pairs, used) ==
    IF pairs = <<>> THEN <<>>
    ELSE LET q == Head(pairs)
         IN  IF q[1] \in used \/ q[2] \in used
             THEN CleanPairs(Tail(pairs), used)
             ELSE <<q>> \o CleanPairs(Tail(pairs), used \cup {q[1], q[2]})

RECURSIVE KeepPairs(_)
KeepPairs(parts) ==
    IF parts = <<>> THEN <<>>
    ELSE LET q == replace(Head(parts), "-", <<>>)
         IN  (IF Len(q) = 2 /\ q[1] # q[2] THEN <<q>> ELSE <<>>)
             \o KeepPairs(Tail(parts))

parse_plug_pairs(txt) ==
    LET t0 == upper(strip(txt))
        t1 == replace(replace(replace(t0, ",", <<" ">>), ";", <<" ">>), "/", <<" ">>)
    IN  IF t0 = <<>> THEN <<>>
        ELSE CleanPairs(KeepPairs(split_whitespace(t1)), {})

\* var.get().upper()[:1] or 'A'.
WindowLetter(s) == IF s = <<>> THEN "A" ELSE upper(s)[1]

build_machine_from_ui(u) ==
    EnigmaMachine(<<u.left_rotor_var, u.middle_rotor_var, u.right_rotor_var>>,
                  <<WindowLetter(u.left_pos_var), WindowLetter(u.mid_pos_var),
                    WindowLetter(u.right_pos_var)>>,
                  <<u.left_ring_var, u.mid_ring_var, u.right_ring_var>>,
                  u.reflector_var,
                  parse_plug_pairs(u.plugboard_var))

\* What text.get("1.0", tk.END) returns for a text box: its content and the
\* newline Tk ends it with.
TextGet(content) == content \o <<"\n">>

\* EnigmaGUI.__init__: the defaults, with empty text boxes.
DefaultUi ==
    [left_rotor_var |-> NameI, middle_rotor_var |-> NameII, right_rotor_var |-> NameIII,
     left_pos_var |-> <<"A">>, mid_pos_var |-> <<"A">>, right_pos_var |-> <<"A">>,
     left_ring_var |-> 1, mid_ring_var |-> 1, right_ring_var |-> 1,
     reflector_var |-> NameB, plugboard_var |-> <<>>,
     input_text |-> <<>>, output_text |-> <<>>, status_var |-> "Ready"]

\* encrypt_action: the GUI variables it leaves.  A machine that cannot be
\* built ends the handler.
encrypt_action(u) ==
    LET m == build_machine_from_ui(u)
        input_text == strip_chars(TextGet(u.input_text), {"\n"})
    IN  IF ~m.ok THEN u
        ELSE [u EXCEPT !.output_text = encrypt(m, input_text).out,
                       !.status_var = "Encrypted/Decrypted. Rotors advanced accordingly."]

clear_action(u) ==
    [u EXCEPT !.input_text = <<>>, !.output_text = <<>>, !.status_var = "Cleared"]

\* The ct of export_action.
ExportCt(u) == replace(strip(TextGet(u.output_text)), "\n", <<>>)

\* The string export_action shows.
ExportString(m, ct) ==
    <<"E", "N", "I", "G", "M", "A", "|">> \o get_settings_serialized(m)
    \o <<"|", "C", "T", ":">> \o ct

\* import_action, up to the parser: the settings part and the ciphertext
\* part of the pasted string, or why the handler gives up.
ImportSplit(s0) ==
    LET s == strip(s0)
        payload == SubSeq(s, 8, Len(s))
        at == find(payload, <<"C", "T", ":">>)
    IN  IF s0 = <<>> THEN [ok |-> FALSE, error |-> "cancelled"]
        ELSE IF ~startswith(s, <<"E", "N", "I", "G", "M", "A", "|">>)
        THEN [ok |-> FALSE, error |-> "Invalid format"]
        ELSE IF Contains(payload, <<"|", "C", "T", ":">>)
        THEN [ok |-> TRUE,
              settings_part |-> split_once(payload, <<"|", "C", "T", ":">>)[1],
              ct_part |-> split_once(payload, <<"|", "C", "T", ":">>)[2]]
        ELSE IF Contains(payload, <<";", "C", "T", ":">>)
        THEN [ok |-> TRUE,
              settings_part |-> split_once(payload, <<";", "C", "T", ":">>)[1],
              ct_part |-> split_once(payload, <<";", "C", "T", ":">>)[2]]
        ELSE IF at = 0 - 1
        THEN [ok |-> FALSE, error |-> "Invalid"]
        ELSE [ok |-> TRUE,
              settings_part |-> rstrip_chars(SubSeq(payload, 1, at), {"|", ";"}),
              ct_part |-> SubSeq(payload, at + 4, Len(payload))]

\* The machine import_action builds from the pasted string, or the error.
ImportMachine(s0) ==
    IF ~ImportSplit(s0).ok THEN Raised(ImportSplit(s0).error)
    ELSE from_serialized(replace(ImportSplit(s0).settings_part, "|", <<";">>))

\* The loop of import_action over the machine's rotors: rotor 0 sets the
\* left fields, rotor 1 the middle ones, every later rotor the right ones.
RECURSIVE SetRotorFields(_, _, _)
SetRotorFields(u, rotors, i) ==
    IF i > Len(rotors) THEN u
    ELSE LET r == rotors[i]
             letter == <<index_to_letter(r.position)>>
             u1 == IF i = 1
                   THEN [u EXCEPT !.left_rotor_var = r.name, !.left_pos_var = letter,
                                  !.left_ring_var = r.ring + 1]
                   ELSE IF i = 2
                   THEN [u EXCEPT !.middle_rotor_var = r.name, !.mid_pos_var = letter,
                                  !.mid_ring_var = r.ring + 1]
                   ELSE [u EXCEPT !.right_rotor_var = r.name, !.right_pos_var = letter,
                                  !.right_ring_var = r.ring + 1]
         IN  SetRotorFields(u1, rotors, i + 1)

\* import_action: the GUI variables it leaves.
import_action(u, s0) ==
    LET m == ImportMachine(s0)
        u1 == SetRotorFields(u, m.rotors, 1)
    IN  IF ~m.ok THEN u
        ELSE [u1 EXCEPT !.reflector_var = NameB,
                        !.plugboard_var = join(PairsFrom(m.plugboard, 0, <<>>), <<" ">>),
                        !.input_text = strip(ImportSplit(s0).ct_part),
                        !.output_text = <<>>,
                        !.status_var = "Imported settings and ciphertext. Press Encrypt/Decrypt to decode."]

\* How many handlers a GUI run makes.
MaxClicks == 4

UiPlugTexts ==
    {<<>>, <<"A", "T">>, <<"A", "T", " ", "B", "S">>,
     <<"h", "-", "q", ",", "e", "-", "l">>, <<"A", "B", " ", "A", "C">>}

UiInputs == {<<"H", "E", "L", "L", "O">>, <<"H", "i", " ", "!">>, <<>>}

UiStates ==
    {[DefaultUi EXCEPT !.left_rotor_var = names[1], !.middle_rotor_var = names[2],
                       !.right_rotor_var = names[3], !.mid_pos_var = windows[1],
                       !.right_pos_var = windows[2], !.left_ring_var = ring,
                       !.plugboard_var = plugs, !.input_text = input] :
        names \in {<<NameI, NameII, NameIII>>, <<NameIV, NameV, NameII>>},
        windows \in {<<<<"A">>, <<"A">>>>, <<<<"d">>, <<"U">>>>},
        ring \in {1, 26},
        plugs \in UiPlugTexts,
        input \in UiInputs}

GuiInit ==
    /\ ui \in UiStates
    /\ phase = "gui"
    /\ clicks = 0
    /\ before = <<>>
    /\ rotor = NoRotor
    /\ signal = NoSignal
    /\ heap = <<>>
    /\ instances = <<>>
    /\ catalog = Catalog
    /\ enciphered = <<>>
    /\ dialog = <<>>
    /\ pasted = <<>>
    /\ rebuilt = NoMachine
    /\ machine = NoMachine
    /\ cfg = DefaultConfig
    /\ plain = <<>>
    /\ text = <<>>
    /\ idx = 0
    /\ result = <<>>
    /\ first = NoFirst
    /\ keys = 0
    /\ lastIn = NoChar
    /\ lastOut = NoChar

EncryptAction ==
    /\ phase \in {"gui", "imported"}
    /\ clicks < MaxClicks
    /\ ui' = encrypt_action(ui)
    /\ enciphered' = IF build_machine_from_ui(ui).ok
                     THEN get_settings_serialized(build_machine_from_ui(ui))
                     ELSE enciphered
    /\ phase' = "gui"
    /\ clicks' = clicks + 1
    /\ UNCHANGED <<cfg, machine, plain, text, idx, result, first, keys, lastIn,
                   lastOut, pasted, rebuilt, dialog>>
    /\ UNCHANGED <<before, probeVars, pairVars, catalog>>

ClearAction ==
    /\ phase \in {"gui", "imported"}
    /\ clicks < MaxClicks
    /\ ui' = clear_action(ui)
    /\ phase' = "gui"
    /\ clicks' = clicks + 1
    /\ UNCHANGED <<cfg, machine, plain, text, idx, result, first, keys, lastIn,
                   lastOut, pasted, rebuilt, dialog>>
    /\ UNCHANGED <<before, probeVars, pairVars, catalog, enciphered>>

\* export_action: with nothing in the output box it only says so;
\* otherwise it shows the export string.  machine is the machine it built.
ExportAction ==
    /\ phase \in {"gui", "imported"}
    /\ clicks < MaxClicks
    /\ LET m == build_machine_from_ui(ui)
       IN  IF ~m.ok \/ ExportCt(ui) = <<>>
           THEN UNCHANGED <<machine, dialog, ui>>
           ELSE /\ machine' = m
                /\ dialog' = ExportString(m, ExportCt(ui))
                /\ ui' = [ui EXCEPT !.status_var = "Export string created (copy and send)."]
    /\ phase' = "gui"
    /\ clicks' = clicks + 1
    /\ UNCHANGED <<cfg, plain, text, idx, result, first, keys, lastIn, lastOut,
                   pasted, rebuilt>>
    /\ UNCHANGED <<before, probeVars, pairVars, catalog, enciphered>>

\* import_action on the string the Export dialog shows.  rebuilt is the
\* machine the handler built from it.
ImportAction ==
    /\ phase \in {"gui", "imported"}
    /\ clicks < MaxClicks
    /\ dialog # <<>>
    /\ pasted' = dialog
    /\ rebuilt' = ImportMachine(dialog)
    /\ ui' = import_action(ui, dialog)
    /\ phase' = "imported"
    /\ clicks' = clicks + 1
    /\ UNCHANGED <<cfg, machine, plain, text, idx, result, first, keys, lastIn,
                   lastOut, dialog>>
    /\ UNCHANGED <<before, probeVars, pairVars, catalog, enciphered>>

\* randomize_positions: random.choice(ALPHABET) for each window.
randomize_positions(u, l, m, r) ==
    [u EXCEPT !.left_pos_var = <<l>>, !.mid_pos_var = <<m>>, !.right_pos_var = <<r>>,
              !.status_var = "Randomized rotor window positions"]

\* The letters random.choice is seen to return.
RandomLetters == {"A", "K"}

RandomizePositions ==
    /\ phase \in {"gui", "imported"}
    /\ clicks < MaxClicks
    /\ \E l, m, r \in RandomLetters : ui' = randomize_positions(ui, l, m, r)
    /\ phase' = "gui"
    /\ clicks' = clicks + 1
    /\ UNCHANGED <<cfg, machine, plain, text, idx, result, first, keys, lastIn,
                   lastOut, pasted, rebuilt, dialog>>
    /\ UNCHANGED <<before, probeVars, pairVars, catalog, enciphered>>

\* What the user types into the right rotor's window entry and into the
\* plugboard entry.
TypedWindows == {<<"A">>, <<"k">>}

TypedPlugboards == {<<>>, <<"A", "T">>}

\* The user edits the entry bound to right_pos_var.
EditWindow(typed) ==
    /\ phase \in {"gui", "imported"}
    /\ clicks < MaxClicks
    /\ ui' = [ui EXCEPT !.right_pos_var = typed]
    /\ phase' = "gui"
    /\ clicks' = clicks + 1
    /\ UNCHANGED <<cfg, machine, plain, text, idx, result, first, keys, lastIn,
                   lastOut, pasted, rebuilt, dialog>>
    /\ UNCHANGED <<before, probeVars, pairVars, catalog, enciphered>>

\* The user edits the entry bound to plugboard_var.
EditPlugboard(typed) ==
    /\ phase \in {"gui", "imported"}
    /\ clicks < MaxClicks
    /\ ui' = [ui EXCEPT !.plugboard_var = typed]
    /\ phase' = "gui"
    /\ clicks' = clicks + 1
    /\ UNCHANGED <<cfg, machine, plain, text, idx, result, first, keys, lastIn,
                   lastOut, pasted, rebuilt, dialog>>
    /\ UNCHANGED <<before, probeVars, pairVars, catalog, enciphered>>

GuiNext ==
    \/ EncryptAction
    \/ ClearAction
    \/ ExportAction
    \/ ImportAction
    \/ RandomizePositions
    \/ \E typed \in TypedWindows : EditWindow(typed)
    \/ \E typed \in TypedPlugboards : EditPlugboard(typed)

SpecGui == GuiInit /\ [][GuiNext]_vars

\* The ciphertext carried by the string the Export dialog shows.
ExportedCt ==
    SubSeq(dialog, Len(ExportString(machine, <<>>)) + 1, Len(dialog))

\* C5, as the specification states it: importing an exported string
\* rebuilds the rotor names, positions, ring settings and plugboard pairs of
\* the exporting machine, and the ciphertext the string carries.
C5_ExportImportRoundTrip ==
    phase = "imported"
        => /\ rebuilt.ok
           /\ rebuilt.rotors = machine.rotors
           /\ rebuilt.plugboard = machine.plugboard
           /\ ui.input_text = ExportedCt

----------------------------------------------------------------------------
(* Construction from arguments of any kind, and encrypt on what it         *)
(* returns: a caller may hand the constructor names, windows, rings and    *)
(* pairs that the catalog and the alphabet do not hold.                    *)

\* Whether self.mapping[c] raises IndexError.
swap_raises(mapping, c) == ~ValidIndex(c, 26)

\* The index the right rotor would hand on if its return pass did not
\* reduce its result modulo 26.
ReturnIndex_unreduced(m, ch) ==
    LET c0 == swap(m.plugboard, letter_to_index(ch))
        c1 == forward(m.rotors[3], c0)
        c2 == forward(m.rotors[2], c1)
        c3 == forward(m.rotors[1], c2)
        c4 == reflect(m.reflector, c3)
        c5 == backward(m.rotors[1], c4)
        c6 == backward(m.rotors[2], c5)
        r == m.rotors[3]
        shifted == (c6 + r.position - r.ring) % 26
    IN  r.inverse_wiring[shifted + 1] - r.position + r.ring

\* The index that reaches the plugboard on the way out.
ReturnIndex(m, ch) ==
    LET c0 == swap(m.plugboard, letter_to_index(ch))
        c1 == forward(m.rotors[3], c0)
        c2 == forward(m.rotors[2], c1)
        c3 == forward(m.rotors[1], c2)
        c4 == reflect(m.reflector, c3)
        c5 == backward(m.rotors[1], c4)
        c6 == backward(m.rotors[2], c5)
    IN  backward(m.rotors[3], c6)

\* Whether process_character(ch) raises: step_rotors unpacks rotors 0, 1
\* and 2 (IndexError on a shorter list), and the plugboard list is indexed
\* on the way in and on the way out.
process_character_raises(m, ch) ==
    /\ InAlphabet(ch)
    /\ \/ Len(m.rotors) < 3
       \/ swap_raises(m.plugboard, letter_to_index(ch))
       \/ swap_raises(m.plugboard, ReturnIndex(step_rotors(m), ch))

\* How long the texts handed to encrypt are.
MaxBuildLen == 2

BuildChars == {"A", "q", "!"}

BuildTexts == UNION {[1..n -> BuildChars] : n \in 0..MaxBuildLen}

BuildNames ==
    {<<NameI, NameII, NameIII>>, <<NameV, NameIV, NameI>>,
     <<NameI, NameII, <<"V", "I">>>>, <<NameI, NameII>>}

BuildPositions ==
    {<<"A", "A", "A">>, <<"Z", "D", "V">>, <<"a", "5", "A">>, <<"A", "B">>}

BuildRings == {<<1, 1, 1>>, <<0, 27, 0 - 3>>, <<26, 13, 5>>}

BuildReflectors == {NameB, <<"C">>}

BuildPairs ==
    {<<>>, <<<<"A", "B">>>>, <<<<"A", "B">>, <<"A", "C">>>>,
     <<<<"A", "a">>>>, <<<<"Z", "Z">>, <<"A", "Z">>>>}

BuildConfigs ==
    {[rotor_names |-> names, rotor_positions |-> positions,
      ring_settings |-> rings, reflector_name |-> reflector,
      plug_pairs |-> pairs] :
        names \in BuildNames, positions \in BuildPositions, rings \in BuildRings,
        reflector \in BuildReflectors, pairs \in BuildPairs}

\* The constructor has run on cfg; encrypt is about to run on a text.
BuildInit ==
    /\ cfg \in BuildConfigs
    /\ machine = Build(cfg)
    /\ phase = IF machine.ok THEN "constructed" ELSE "aborted"
    /\ plain \in BuildTexts
    /\ text = upper(plain)
    /\ idx = 0
    /\ result = <<>>
    /\ first = NoFirst
    /\ keys = 0
    /\ lastIn = NoChar
    /\ lastOut = NoChar
    /\ pasted = <<>>
    /\ rebuilt = NoMachine
    /\ ui = NoUi
    /\ dialog = <<>>
    /\ clicks = 0
    /\ before = <<>>
    /\ rotor = NoRotor
    /\ signal = NoSignal
    /\ heap = <<>>
    /\ instances = <<>>
    /\ catalog = Catalog
    /\ enciphered = <<>>

\* One turn of the loop of encrypt; an exception ends the call.
BuildEncryptChar ==
    /\ phase = "constructed"
    /\ idx < Len(text)
    /\ lastIn' = text[idx + 1]
    /\ IF process_character_raises(machine, text[idx + 1])
       THEN /\ phase' = "raised"
            /\ UNCHANGED <<machine, idx, result, lastOut, keys>>
       ELSE LET r == encrypt_char(machine, text[idx + 1])
            IN  /\ machine' = r.machine
                /\ result' = Append(result, r.out)
                /\ lastOut' = r.out
                /\ idx' = idx + 1
                /\ keys' = IF InAlphabet(text[idx + 1]) THEN keys + 1 ELSE keys
                /\ UNCHANGED phase
    /\ UNCHANGED <<cfg, plain, text, first, pasted, rebuilt, ui, dialog, clicks>>
    /\ UNCHANGED <<before, probeVars, pairVars, catalog, enciphered>>

\* return ''.join(result).
BuildReturn ==
    /\ phase = "constructed"
    /\ idx = Len(text)
    /\ phase' = "returned"
    /\ UNCHANGED <<cfg, machine, plain, text, idx, result, first, keys, lastIn,
                   lastOut, pasted, rebuilt, ui, dialog, clicks>>
    /\ UNCHANGED <<before, probeVars, pairVars, catalog, enciphered>>

BuildNext == BuildEncryptChar \/ BuildReturn

SpecBuild == BuildInit /\ [][BuildNext]_vars

\* C11, as the specification states it: in every machine the constructor
\* returns, and after any number of processed characters, the position and
\* the ring of each rotor are in 0..25.
C11_PositionRingRange ==
    machine.ok
        => \A k \in DOMAIN machine.rotors :
              /\ machine.rotors[k].position \in 0..25
              /\ machine.rotors[k].ring \in 0..25

\* A configuration that names a rotor the catalog does not hold, or a
\* reflector other than B.
UnknownIdentifier(c) ==
    \/ \E k \in DOMAIN c.rotor_names : c.rotor_names[k] \notin DOMAIN ROTOR_SPECS
    \/ c.reflector_name # NameB

\* C12, as the specification states it: a configuration with an unknown
\* rotor name or reflector name yields no machine, and no character is
\* processed under it.
C12_UnknownIdentifiersAbort ==
    UnknownIdentifier(cfg) => (~machine.ok /\ phase = "aborted" /\ idx = 0)

\* The arguments C14 names: three catalog rotors, three windows in A-Z,
\* three integer rings, reflector B, pairs of two uppercase letters.
TotalArguments(c) ==
    /\ Len(c.rotor_names) = 3
    /\ \A k \in 1..3 : c.rotor_names[k] \in DOMAIN ROTOR_SPECS
    /\ Len(c.rotor_positions) = 3
    /\ \A k \in 1..3 : c.rotor_positions[k] \in Letters
    /\ Len(c.ring_settings) = 3
    /\ \A k \in 1..3 : c.ring_settings[k] \in Int
    /\ c.reflector_name = NameB
    /\ \A k \in DOMAIN c.plug_pairs :
          Len(c.plug_pairs[k]) = 2 /\ Range(c.plug_pairs[k]) \subseteq Letters

\* C14: on a machine built from such arguments encrypt never raises, in no
\* rotor state it reaches and for no letter, and returns as many characters
\* as the uppercased text holds.
C14_EncryptTotal ==
    TotalArguments(cfg)
        => /\ machine.ok
           /\ phase # "raised"
           /\ \A x \in Letters : ~process_character_raises(machine, x)
           /\ Len(result) = idx
           /\ phase = "returned" => Len(result) = Len(upper(plain))

\* A whole text with a letter and another character has been enciphered on
\* a machine whose rings are outside 1..26 and whose pairs share a letter.
C14_Witness ==
    /\ TotalArguments(cfg)
    /\ phase = "returned"
    /\ Len(result) = MaxBuildLen
    /\ keys = 1
    /\ cfg.ring_settings = <<0, 27, 0 - 3>>
    /\ Len(cfg.plug_pairs) = 2

----------------------------------------------------------------------------
(* Claims about each rotor's share of the stepping, under SpecKeys.        *)

Next1(pos) == (pos + 1) % 26

\* Whether rotor k moved from the positions p to the positions q.
Moved(p, q, k) == q[k] = Next1(p[k])

OdometerTexts ==
    {<<"a", "!", "Z">>, <<"7", " ", "n">>, <<"?">>}

\* C17: every keystroke advances the right rotor by one modulo 26, and in
\* every rotor state encrypt(text) advances it by the number of letters of
\* the text modulo 26.
C17_RightRotorOdometer ==
    /\ [][keys' = keys + 1
            => machine'.rotors[3].position = Next1(machine.rotors[3].position)]_vars
    /\ [](machine.rotors[3].position = (Build(cfg).rotors[3].position + keys) % 26)
    /\ [](\A txt \in OdometerTexts :
            encrypt(machine, txt).machine.rotors[3].position
                = (machine.rotors[3].position + Len(LettersOf(txt))) % 26)

\* The right rotor has gone once round and one step further.
C17_Witness ==
    /\ keys = 27
    /\ machine.rotors[3].position = Next1(Build(cfg).rotors[3].position)
    /\ before[3] = Build(cfg).rotors[3].position

----------------------------------------------------------------------------
(* One rotor on its own: any catalog rotor, at any window and ring         *)
(* setting, with an index sent through it in either direction.             *)

RotorNames == DOMAIN ROTOR_SPECS

RotorInit ==
    /\ rotor \in {Rotor(name, ROTOR_SPECS[name][1], ROTOR_SPECS[name][2], ring, window) :
                    name \in RotorNames, ring \in 1..26, window \in Letters}
    /\ signal = NoSignal
    /\ cfg = DefaultConfig
    /\ machine = NoMachine
    /\ phase = "rotor"
    /\ plain = <<>>
    /\ text = <<>>
    /\ idx = 0
    /\ result = <<>>
    /\ first = NoFirst
    /\ keys = 0
    /\ lastIn = NoChar
    /\ lastOut = NoChar
    /\ pasted = <<>>
    /\ rebuilt = NoMachine
    /\ ui = NoUi
    /\ dialog = <<>>
    /\ clicks = 0
    /\ before = <<>>
    /\ heap = <<>>
    /\ instances = <<>>
    /\ catalog = Catalog
    /\ enciphered = <<>>

\* rotor.forward(c).  The call changes nothing in the rotor, so one index
\* sent through each rotor shows all that later ones would.
SendForward(c) ==
    /\ phase = "rotor"
    /\ signal = NoSignal
    /\ signal' = [sent |-> c, through |-> "forward", out |-> forward(rotor, c)]
    /\ UNCHANGED <<cfg, machine, plain, text, idx, result, phase, first, keys,
                   lastIn, lastOut, pasted, rebuilt, ui, dialog, clicks>>
    /\ UNCHANGED <<before, rotor, pairVars, catalog, enciphered>>

\* rotor.backward(c).  The call changes nothing in the rotor, so one index
\* sent through each rotor shows all that later ones would.
SendBackward(c) ==
    /\ phase = "rotor"
    /\ signal = NoSignal
    /\ signal' = [sent |-> c, through |-> "backward", out |-> backward(rotor, c)]
    /\ UNCHANGED <<cfg, machine, plain, text, idx, result, phase, first, keys,
                   lastIn, lastOut, pasted, rebuilt, ui, dialog, clicks>>
    /\ UNCHANGED <<before, rotor, pairVars, catalog, enciphered>>

RotorNext == \E c \in 0..25 : SendForward(c) \/ SendBackward(c)

SpecRotor == RotorInit /\ [][RotorNext]_vars

\* C18: for every catalog rotor at every window and ring setting, what
\* forward returns comes back through backward as the index sent, and the
\* other way round; inverse_wiring undoes wiring.
C18_BackwardInvertsForward ==
    /\ signal # NoSignal
        => /\ signal.out \in 0..25
           /\ signal.through = "forward" => backward(rotor, signal.out) = signal.sent
           /\ signal.through = "backward" => forward(rotor, signal.out) = signal.sent
    /\ rotor # NoRotor
        => \A i \in 0..25 : rotor.inverse_wiring[rotor.wiring[i + 1] + 1] = i

\* An index has gone through rotor IV, off its first window and with a
\* ring offset, and has come out as another index.
C18_Witness ==
    /\ signal # NoSignal
    /\ rotor.name = NameIV
    /\ rotor.position = 7
    /\ rotor.ring = 25
    /\ signal.through = "forward"
    /\ signal.out # signal.sent
    /\ backward(rotor, signal.out) = signal.sent

----------------------------------------------------------------------------
(* Machine instances side by side.  Python objects are references: each    *)
(* Rotor is an entry of the heap, and an instance holds the identities of  *)
(* its rotors.  step() assigns to a field of the Rotor object itself.      *)

\* A constructor that keeps one Rotor object per rotor name and sets it up
\* again for each machine that names it.
AllocateRotor_per_name(h, r) ==
    IF \E id \in DOMAIN h : h[id].name = r.name
    THEN LET id == CHOOSE id \in DOMAIN h : h[id].name = r.name
         IN  [heap |-> [h EXCEPT ![id] = r], id |-> id]
    ELSE [heap |-> Append(h, r), id |-> Len(h) + 1]

\* Rotor(...): a new object, whatever objects exist.
AllocateRotor(h, r) == [heap |-> Append(h, r), id |-> Len(h) + 1]

\* The loop of EnigmaMachine.__init__ that appends one new Rotor per name.
RECURSIVE AllocateRotors(_, _, _)
AllocateRotors(h, rotors, ids) ==
    IF rotors = <<>> THEN [heap |-> h, ids |-> ids]
    ELSE LET a == AllocateRotor(h, Head(rotors))
         IN  AllocateRotors(a.heap, Tail(rotors), Append(ids, a.id))

\* The machine an instance is, read off the heap.
Deref(h, inst) ==
    [ok |-> TRUE,
     rotors |-> [k \in DOMAIN inst.rotors |-> h[inst.rotors[k]]],
     reflector |-> inst.reflector,
     plugboard |-> inst.plugboard]

\* The heap after an instance's rotors have become those of machine m.
StoreRotors(h, inst, m) ==
    [id \in DOMAIN h |->
        IF \E k \in DOMAIN inst.rotors : inst.rotors[k] = id
        THEN m.rotors[CHOOSE k \in DOMAIN inst.rotors : inst.rotors[k] = id]
        ELSE h[id]]

\* How many instances run side by side, and how long their inputs are.
MaxInstances == 2

PairTextLen == 2

PairStreams == {<<"A", "N", "N", "A">>, <<"N", "A", "A", "N">>}

PairTexts == {SubSeq(s, 1, PairTextLen) : s \in PairStreams}

PairConfigs ==
    {Config(<<NameI, NameII, NameIII>>, <<"A", "D", "U">>, <<1, 1, 1>>, <<>>),
     Config(<<NameI, NameII, NameIII>>, <<"M", "E", "V">>, <<3, 2, 1>>, <<<<"A", "N">>>>),
     Config(<<NameIII, NameIV, NameV>>, <<"A", "A", "A">>, <<1, 1, 1>>, <<>>)}

PairInit ==
    /\ heap = <<>>
    /\ instances = <<>>
    /\ catalog = Catalog
    /\ phase = "instances"
    /\ cfg = DefaultConfig
    /\ machine = NoMachine
    /\ plain = <<>>
    /\ text = <<>>
    /\ idx = 0
    /\ result = <<>>
    /\ first = NoFirst
    /\ keys = 0
    /\ lastIn = NoChar
    /\ lastOut = NoChar
    /\ pasted = <<>>
    /\ rebuilt = NoMachine
    /\ ui = NoUi
    /\ dialog = <<>>
    /\ clicks = 0
    /\ before = <<>>
    /\ rotor = NoRotor
    /\ signal = NoSignal
    /\ enciphered = <<>>

\* EnigmaMachine(...) for one more stream, whose input is given with it.
Construct(c, input) ==
    /\ phase = "instances"
    /\ Len(instances) < MaxInstances
    /\ LET m == EnigmaMachine(c.rotor_names, c.rotor_positions, c.ring_settings,
                              c.reflector_name, c.plug_pairs)
           a == AllocateRotors(heap, m.rotors, <<>>)
       IN  /\ heap' = a.heap
           /\ instances' = Append(instances,
                  [rotors |-> a.ids, reflector |-> m.reflector,
                   plugboard |-> m.plugboard, cfg |-> c, input |-> input,
                   done |-> 0, out |-> <<>>])
    /\ UNCHANGED <<cfg, machine, plain, text, idx, result, phase, first, keys,
                   lastIn, lastOut, pasted, rebuilt, ui, dialog, clicks>>
    /\ UNCHANGED <<before, probeVars, catalog, enciphered>>

\* Instance i processes the next character of its input.
ProcessNext(i) ==
    /\ phase = "instances"
    /\ i \in DOMAIN instances
    /\ instances[i].done < Len(instances[i].input)
    /\ LET inst == instances[i]
           r == process_character(Deref(heap, inst), inst.input[inst.done + 1])
       IN  /\ heap' = StoreRotors(heap, inst, r.machine)
           /\ instances' = [instances EXCEPT ![i].done = inst.done + 1,
                                             ![i].out = Append(inst.out, r.out)]
    /\ UNCHANGED <<cfg, machine, plain, text, idx, result, phase, first, keys,
                   lastIn, lastOut, pasted, rebuilt, ui, dialog, clicks>>
    /\ UNCHANGED <<before, probeVars, catalog, enciphered>>

PairNext ==
    \/ \E c \in PairConfigs, input \in PairTexts : Construct(c, input)
    \/ \E i \in 1..MaxInstances : ProcessNext(i)

SpecPair == PairInit /\ [][PairNext]_vars

\* What an instance has produced and where its rotors stand, had it run
\* alone on the characters it has processed.
Alone(inst) ==
    EncryptLoop(Build(inst.cfg), SubSeq(inst.input, 1, inst.done), <<>>)

\* C19: under every interleaving, each instance's outputs and rotor
\* positions are those of its run alone; no two instances hold a Rotor
\* object in common; the catalog tables are what they were.
C19_InstanceIsolation ==
    /\ \A i \in DOMAIN instances :
          /\ instances[i].out = Alone(instances[i]).out
          /\ Positions(Deref(heap, instances[i])) = Positions(Alone(instances[i]).machine)
    /\ \A i, j \in DOMAIN instances :
          i # j => Range(instances[i].rotors) \cap Range(instances[j].rotors) = {}
    /\ catalog = Catalog

\* Two instances with the same rotor names have both processed their whole
\* inputs, and their rotors stand at different positions.
C19_Witness ==
    /\ Len(instances) = 2
    /\ instances[1].cfg.rotor_names = instances[2].cfg.rotor_names
    /\ instances[1].done = PairTextLen
    /\ instances[2].done = PairTextLen
    /\ Positions(Deref(heap, instances[1])) # Positions(Deref(heap, instances[2]))

----------------------------------------------------------------------------
(* Export after the fields have been edited, under SpecGui.                *)

\* The Export button has been pressed and a string is shown.
ExportShown ==
    /\ ExportAction
    /\ build_machine_from_ui(ui).ok
    /\ ExportCt(ui) # <<>>

\* The settings segment of an export string: what stands between 'ENIGMA|'
\* and '|CT:'.
SettingsSegment(s) == split_once(SubSeq(s, 8, Len(s)), <<"|", "C", "T", ":">>)[1]

\* C20, as stated: the settings segment of every exported string is the
\* configuration of the machine with which the most recent Encrypt/Decrypt
\* produced the ciphertext the string carries.
C20_ExportConsistency ==
    [][ExportShown => SettingsSegment(dialog') = enciphered]_vars

====
